---- MODULE Spec2Model ----
(***************************************************************************)
(* Model of the podcast processing workflow (podcastProcessor,             *)
(* src/inngest/functions/podcast-processor.ts) and of the progress         *)
(* indicator that displays its job statuses (CompactProgress,              *)
(* src/components/projects/compact-progress.tsx).                          *)
(*                                                                         *)
(* One run of the workflow is modelled: the handler's position is pc, its  *)
(* locals keep the names they have in the source, and `store` is the       *)
(* document the Convex mutations write.  `calls` is the history of the     *)
(* outbound calls the run has issued.                                      *)
(***************************************************************************)
EXTENDS Integers, Sequences, FiniteSets, TLC

VARIABLES
    userPlan,          \* event.data.plan as delivered by the trigger
    plan,              \* const plan = (userPlan as PlanName) || "free"
    pc,                \* position of the handler
    attempt,           \* failed invocations of the step.run at pc so far
    store,             \* the project document in the status store
    transcript,        \* const transcript
    jobNames,          \* const jobNames: string[]
    jobs,              \* const jobs: Promise<any>[]  (state of each promise)
    results,           \* const results = await Promise.allSettled(jobs)
    generatedContent,  \* const generatedContent: Record<string, any>
    jobErrors,         \* const jobErrors: Record<string, string>
    error,             \* the binding of catch (error)
    cleanupError,      \* the binding of catch (cleanupError)
    thrown,            \* what the handler re-raised to the platform
    returned,          \* what the handler returned
    calls,             \* outbound calls issued so far, in order
    jobStatus,         \* CompactProgress prop: jobStatus
    conservative,      \* estimateAssemblyAITime(fileDuration).conservative
    elapsed,           \* Math.floor((Date.now() - createdAt) / 1000), last reading
    progress,          \* CompactProgress state: progress (a rational number)
    mounted,           \* whether the component's first effect has run
    invocation,        \* which invocation of the handler by the platform this is
    pushed,            \* names of the jobs this invocation has launched
    checkpoints,       \* names of the job steps whose result the platform holds
    executions         \* how often each job's unit of work has been executed

wfVars == <<userPlan, plan, pc, attempt, store, transcript, jobNames, jobs,
            results, generatedContent, jobErrors, error, cleanupError, thrown,
            returned, calls>>

uiVars == <<jobStatus, conservative, elapsed, progress, mounted>>

replayVars == <<invocation, pushed, checkpoints, executions>>

vars == <<wfVars, uiVars, replayVars>>

----------------------------------------------------------------------------
(* JavaScript values.  A value that may be undefined, a number or a string *)
(* carries its typeof in t.                                                *)

Undefined == [t |-> "undefined", v |-> 0]

Num(n) == [t |-> "number", v |-> n]

NumericString(n) == [t |-> "string", v |-> n]

EmptyRecord == [n \in {} |-> ""]

Range(s) == {s[i] : i \in 1..Len(s)}

projectId == "project-1"

retriesFour == 2 + 2

\* retries: 3 in the function configuration
retries == 3

\* Plan values a trigger event can carry: the three tiers, an absent plan
\* (undefined), an empty string and a value that is no tier.
AbsentPlan == "undefined"

PlanTiers == {"free", "pro", "ultra"}

PlanInputs == PlanTiers \cup {AbsentPlan, "", "enterprise"}

\* JavaScript falsiness of event.data.plan
Falsy(p) == p = AbsentPlan \/ p = ""

\* const plan = (userPlan as PlanName) || "free";
ResolvePlan(p) == IF Falsy(p) THEN "free" ELSE p

----------------------------------------------------------------------------
(* Errors.  An error carries the unit of work that raised it (origin); its *)
(* message stands for "the message of the error raised by origin".         *)

NoError ==
    [origin |-> "", isError |-> FALSE, message |-> "",
     statusCode |-> Undefined, status |-> Undefined]

\* What a failing unit of work can raise: an Error with a numeric
\* statusCode, an Error whose statusCode is a string and whose status is a
\* number, a plain Error, and a value that is no Error.
ErrorKinds ==
    { [isError |-> TRUE,  statusCode |-> Num(429),           status |-> Undefined],
      [isError |-> TRUE,  statusCode |-> NumericString(429), status |-> Num(503)],
      [isError |-> TRUE,  statusCode |-> Undefined,          status |-> Undefined],
      [isError |-> FALSE, statusCode |-> Undefined,          status |-> Num(500)] }

\* What a generation job can reject with.
JobErrorKinds == {k \in ErrorKinds : k.statusCode = Undefined}

MkError(origin, k) ==
    [origin |-> origin, isError |-> k.isError,
     message |-> IF k.isError THEN origin ELSE "",
     statusCode |-> k.statusCode, status |-> k.status]

\* String(reason) of a value that is no Error
StringOf(reason) == "[object Object]"

StatusCodeOfUnchecked(e) ==
    IF e.statusCode # Undefined THEN e.statusCode ELSE e.status

\* const statusCode = typeof error?.statusCode === "number" ? error.statusCode
\*                  : typeof error?.status === "number" ? error.status : undefined
StatusCodeOf(e) ==
    IF e.statusCode.t = "number" THEN e.statusCode
    ELSE IF e.status.t = "number" THEN e.status
    ELSE Undefined

\* message: error instanceof Error ? error.message : "Unknown error occurred"
MessageOf(e) == IF e.isError THEN e.message ELSE "Unknown error occurred"

\* The arguments of convex.mutation(api.projects.recordError, ...)
ErrorRecord(e) ==
    [message |-> MessageOf(e), step |-> "workflow", statusCode |-> StatusCodeOf(e)]

NoErrorRecord == [message |-> "", step |-> "", statusCode |-> Undefined]

RethrownCleanup(e, ce) == IF ce # NoError THEN ce ELSE e

\* throw error;  (the catch binding, not cleanupError)
Rethrown(e, ce) == e

----------------------------------------------------------------------------
(* The generation jobs.                                                    *)

Job(producer, name, viaStep) ==
    [producer |-> producer, name |-> name, viaStep |-> viaStep]

SummaryJob == Job("generateSummary", "summary", TRUE)

ProJobs ==
    << Job("generateSocialPosts", "socialPosts", TRUE),
       Job("generateTitles", "titles", TRUE),
       Job("generateHashtags", "hashtags", TRUE) >>

UltraJobs ==
    << Job("generateKeyMoments", "keyMoments", FALSE),
       Job("generateYouTubeTimestamps", "youtubeTimestamps", TRUE) >>

AllJobs == <<SummaryJob>> \o ProJobs \o UltraJobs

ProducerOf(name) == (CHOOSE j \in Range(AllJobs) : j.name = name).producer

LaunchedJobsProOnly(p) ==
    <<SummaryJob>>
    \o (IF p = "pro" THEN ProJobs ELSE <<>>)
    \o (IF p = "ultra" THEN UltraJobs ELSE <<>>)

\* jobs.push(...); jobNames.push(...): the jobs launched for a plan, in order
LaunchedJobs(p) ==
    <<SummaryJob>>
    \o (IF p = "pro" \/ p = "ultra" THEN ProJobs ELSE <<>>)
    \o (IF p = "ultra" THEN UltraJobs ELSE <<>>)

\* A promise: pending, fulfilled with a value, or rejected with a reason.
\* The value of a fulfilled job names the producer that made it.
Pending(j) ==
    [producer |-> j.producer, status |-> "pending", value |-> "", reason |-> NoError]

Fulfilled(p) == [p EXCEPT !.status = "fulfilled", !.value = p.producer]

Rejected(p, e) == [p EXCEPT !.status = "rejected", !.reason = e]

SomeSettled(js) == \E i \in 1..Len(js) : js[i].status # "pending"

\* Promise.allSettled settles once every promise has settled
AllSettled(js) == \A i \in 1..Len(js) : js[i].status # "pending"

RejectionsFailFast(js) == {js[i].reason : i \in {k \in 1..Len(js) : js[k].status = "rejected"}}

\* Promise.allSettled never rejects: the reasons the join itself rejects with
JoinRejections(js) == {}

\* The outcomes of Promise.allSettled, index-aligned with its input
SettledResults(js) ==
    [i \in 1..Len(js) |->
        [status |-> js[i].status, value |-> js[i].value, reason |-> js[i].reason]]

\* errorMessage = reason instanceof Error ? reason.message : String(reason)
ErrorMessage(reason) == IF reason.isError THEN reason.message ELSE StringOf(reason)

Indices(rs, names, st) == {i \in 1..Len(rs) : rs[i].status = st}

\* JavaScript object assignment: the last index that writes a key wins
LastIndex(I, names, n) ==
    CHOOSE i \in I : names[i] = n /\ \A k \in I : names[k] = n => k <= i

GeneratedContentAll(rs, names) ==
    [n \in {names[i] : i \in 1..Len(rs)} |->
        rs[LastIndex(1..Len(rs), names, n)].value]

\* results.forEach: generatedContent[jobName] = result.value when fulfilled
GeneratedContentOf(rs, names) ==
    LET I == Indices(rs, names, "fulfilled")
    IN  [n \in {names[i] : i \in I} |-> rs[LastIndex(I, names, n)].value]

\* results.forEach: jobErrors[jobName] = errorMessage otherwise
JobErrorsOf(rs, names) ==
    LET I == (1..Len(rs)) \ Indices(rs, names, "fulfilled")
    IN  [n \in {names[i] : i \in I} |-> ErrorMessage(rs[LastIndex(I, names, n)].reason)]

----------------------------------------------------------------------------
(* The sequential spine of the handler.                                    *)

SpineGenerationFirst ==
    << "update-status-processing",
       "update-job-status-transcription-running",
       "transcribe-audio",
       "update-job-status-generation-running",
       "update-job-status-transcription-completed",
       "launch-jobs",
       "await-all-settled",
       "save-job-errors",
       "update-job-status-generation-completed",
       "save-results-to-convex",
       "return" >>

SpineSaveResultsFirst ==
    << "update-status-processing",
       "update-job-status-transcription-running",
       "transcribe-audio",
       "update-job-status-transcription-completed",
       "update-job-status-generation-running",
       "launch-jobs",
       "await-all-settled",
       "save-job-errors",
       "save-results-to-convex",
       "update-job-status-generation-completed",
       "return" >>

\* The statements of the try block, in program order
Spine ==
    << "update-status-processing",
       "update-job-status-transcription-running",
       "transcribe-audio",
       "update-job-status-transcription-completed",
       "update-job-status-generation-running",
       "launch-jobs",
       "await-all-settled",
       "save-job-errors",
       "update-job-status-generation-completed",
       "save-results-to-convex",
       "return" >>

\* The statement that follows `name`; after the last one the handler is done
After(name) ==
    LET i == CHOOSE k \in 1..Len(Spine) : Spine[k] = name
    IN  IF i < Len(Spine) THEN Spine[i + 1] ELSE "returned"

OnFailureTolerateTranscription(name) ==
    IF name = "transcribe-audio" THEN After(name) ELSE "catch"

OnFailureTolerateSaveJobErrors(name) ==
    IF name = "save-job-errors" THEN After(name) ELSE "catch"

\* A step.run that fails after its retries raises inside the try block
OnFailure(name) == "catch"

StoreAfterHandOverAtOnce(name) ==
    CASE name = "update-status-processing" ->
            [store EXCEPT !.status = "processing"]
      [] name = "update-job-status-transcription-running" ->
            [store EXCEPT !.transcription = "running"]
      [] name = "update-job-status-transcription-completed" ->
            [store EXCEPT !.transcription = "completed",
                          !.contentGeneration = "running"]
      [] name = "update-job-status-generation-running" ->
            [store EXCEPT !.contentGeneration = "running"]
      [] name = "save-job-errors" ->
            [store EXCEPT !.jobErrors = jobErrors, !.jobErrorsSaved = TRUE]
      [] name = "update-job-status-generation-completed" ->
            [store EXCEPT !.contentGeneration = "completed"]
      [] name = "save-results-to-convex" ->
            [store EXCEPT !.generatedContent = generatedContent, !.contentSaved = TRUE]
      [] OTHER -> store

\* The state of the status store after the unit of work of step `name`
StoreAfter(name) ==
    CASE name = "update-status-processing" ->
            [store EXCEPT !.status = "processing"]
      [] name = "update-job-status-transcription-running" ->
            [store EXCEPT !.transcription = "running"]
      [] name = "update-job-status-transcription-completed" ->
            [store EXCEPT !.transcription = "completed"]
      [] name = "update-job-status-generation-running" ->
            [store EXCEPT !.contentGeneration = "running"]
      [] name = "save-job-errors" ->
            [store EXCEPT !.jobErrors = jobErrors, !.jobErrorsSaved = TRUE]
      [] name = "update-job-status-generation-completed" ->
            [store EXCEPT !.contentGeneration = "completed"]
      [] name = "save-results-to-convex" ->
            [store EXCEPT !.generatedContent = generatedContent, !.contentSaved = TRUE]
      [] OTHER -> store

Call(op, arg) == [op |-> op, arg |-> arg]

\* The outbound call the unit of work of step `name` makes
CallOf(name) ==
    CASE name = "update-status-processing" ->
            Call("updateProjectStatus", "status=processing")
      [] name = "update-job-status-transcription-running" ->
            Call("updateJobStatus", "transcription=running")
      [] name = "transcribe-audio" ->
            Call("transcribeWithAssemblyAI", plan)
      [] name = "update-job-status-transcription-completed" ->
            Call("updateJobStatus", "transcription=completed")
      [] name = "update-job-status-generation-running" ->
            Call("updateJobStatus", "contentGeneration=running")
      [] name = "save-job-errors" ->
            Call("saveJobErrors", "jobErrors")
      [] name = "update-job-status-generation-completed" ->
            Call("updateJobStatus", "contentGeneration=completed")
      [] name = "save-results-to-convex" ->
            Call("saveResultsToConvex", "generatedContent")

NoReturn == [success |-> FALSE, projectId |-> "", plan |-> ""]

InitialStore ==
    [status |-> "uploaded", transcription |-> "pending",
     contentGeneration |-> "pending",
     jobErrors |-> EmptyRecord, jobErrorsSaved |-> FALSE,
     generatedContent |-> EmptyRecord, contentSaved |-> FALSE,
     error |-> NoErrorRecord, errorRecorded |-> FALSE]

WfInit ==
    /\ userPlan \in PlanInputs
    /\ plan = ResolvePlan(userPlan)
    /\ pc = Spine[1]
    /\ attempt = 0
    /\ store = InitialStore
    /\ transcript = ""
    /\ jobNames = <<>>
    /\ jobs = <<>>
    /\ results = <<>>
    /\ generatedContent = EmptyRecord
    /\ jobErrors = EmptyRecord
    /\ error = NoError
    /\ cleanupError = NoError
    /\ thrown = NoError
    /\ returned = NoReturn
    /\ calls = <<>>

\* await step.run(name, unitOfWork): the unit of work is invoked; it
\* succeeds, or fails and is invoked again while retries remain, or fails
\* for the last time and step.run raises its error.
StepRun(name) ==
    /\ pc = name
    /\ \/ /\ store' = StoreAfter(name)
          /\ calls' = Append(calls, CallOf(name))
          /\ pc' = After(name)
          /\ attempt' = 0
          /\ UNCHANGED error
       \/ /\ attempt < retries
          /\ attempt' = attempt + 1
          /\ UNCHANGED <<pc, store, calls, error>>
       \/ /\ attempt = retries
          /\ \E k \in ErrorKinds : error' = MkError(name, k)
          /\ calls' = Append(calls, CallOf(name))
          /\ pc' = OnFailure(name)
          /\ attempt' = 0
          /\ UNCHANGED store
    /\ UNCHANGED <<userPlan, plan, jobNames, jobs, results, generatedContent,
                   jobErrors, cleanupError, thrown, returned>>
    /\ UNCHANGED <<uiVars, replayVars>>

UpdateStatusProcessing ==
    StepRun("update-status-processing") /\ UNCHANGED transcript

UpdateJobStatusTranscriptionRunning ==
    StepRun("update-job-status-transcription-running") /\ UNCHANGED transcript

TranscribeAudio ==
    /\ StepRun("transcribe-audio")
    /\ transcript' = IF pc' = After("transcribe-audio") /\ error' = error
                     THEN "transcript" ELSE transcript

UpdateJobStatusTranscriptionCompleted ==
    StepRun("update-job-status-transcription-completed") /\ UNCHANGED transcript

UpdateJobStatusGenerationRunning ==
    StepRun("update-job-status-generation-running") /\ UNCHANGED transcript

\* lines 86-109: the jobs of the plan are started, in order
LaunchJobs ==
    /\ pc = "launch-jobs"
    /\ LET launched == LaunchedJobs(plan)
       IN  /\ jobNames' = [i \in 1..Len(launched) |-> launched[i].name]
           /\ jobs' = [i \in 1..Len(launched) |-> Pending(launched[i])]
           /\ calls' = calls \o [i \in 1..Len(launched) |->
                                    Call(launched[i].producer, transcript)]
    /\ pc' = After("launch-jobs")
    /\ UNCHANGED <<userPlan, plan, attempt, store, transcript, results,
                   generatedContent, jobErrors, error, cleanupError, thrown,
                   returned>>
    /\ UNCHANGED <<uiVars, replayVars>>

\* A launched job settles, in any order relative to its siblings
JobSettles ==
    /\ pc = "await-all-settled"
    /\ \E i \in 1..Len(jobs) :
          /\ jobs[i].status = "pending"
          /\ \/ jobs' = [jobs EXCEPT ![i] = Fulfilled(jobs[i])]
             \/ \E k \in JobErrorKinds :
                   jobs' = [jobs EXCEPT ![i] = Rejected(jobs[i], MkError(jobNames[i], k))]
    /\ UNCHANGED <<userPlan, plan, pc, attempt, store, transcript, jobNames,
                   results, generatedContent, jobErrors, error, cleanupError,
                   thrown, returned, calls>>
    /\ UNCHANGED <<uiVars, replayVars>>

\* lines 111-130: await Promise.allSettled(jobs), then results.forEach
AwaitAllSettled ==
    /\ pc = "await-all-settled"
    /\ AllSettled(jobs)
    /\ IF JoinRejections(jobs) = {}
       THEN /\ results' = SettledResults(jobs)
            /\ generatedContent' = GeneratedContentOf(results', jobNames)
            /\ jobErrors' = JobErrorsOf(results', jobNames)
            /\ pc' = After("await-all-settled")
            /\ UNCHANGED error
       ELSE /\ \E e \in JoinRejections(jobs) : error' = e
            /\ pc' = "catch"
            /\ UNCHANGED <<results, generatedContent, jobErrors>>
    /\ UNCHANGED <<userPlan, plan, attempt, store, transcript, jobNames, jobs,
                   cleanupError, thrown, returned, calls>>
    /\ UNCHANGED <<uiVars, replayVars>>

\* if (Object.keys(jobErrors).length > 0) await step.run("save-job-errors", ...)
SaveJobErrors ==
    /\ DOMAIN jobErrors # {}
    /\ StepRun("save-job-errors")
    /\ UNCHANGED transcript

SkipSaveJobErrors ==
    /\ pc = "save-job-errors"
    /\ DOMAIN jobErrors = {}
    /\ pc' = After("save-job-errors")
    /\ UNCHANGED <<userPlan, plan, attempt, store, transcript, jobNames, jobs,
                   results, generatedContent, jobErrors, error, cleanupError,
                   thrown, returned, calls>>
    /\ UNCHANGED <<uiVars, replayVars>>

UpdateJobStatusGenerationCompleted ==
    StepRun("update-job-status-generation-completed") /\ UNCHANGED transcript

SaveResultsToConvex ==
    StepRun("save-results-to-convex") /\ UNCHANGED transcript

\* return { success: true, projectId, plan };
ReturnSuccess ==
    /\ pc = "return"
    /\ returned' = [success |-> TRUE, projectId |-> projectId, plan |-> plan]
    /\ pc' = After("return")
    /\ UNCHANGED <<userPlan, plan, attempt, store, transcript, jobNames, jobs,
                   results, generatedContent, jobErrors, error, cleanupError,
                   thrown, calls>>
    /\ UNCHANGED <<uiVars, replayVars>>

\* lines 153-181: the catch block records the error once, outside step.run;
\* a failure of the recording is caught as cleanupError and logged
RecordError ==
    /\ pc = "catch"
    /\ calls' = Append(calls, Call("recordError", "workflow"))
    /\ \/ /\ store' = [store EXCEPT !.error = ErrorRecord(error),
                                    !.errorRecorded = TRUE]
          /\ UNCHANGED cleanupError
       \/ /\ \E k \in ErrorKinds : cleanupError' = MkError("record-error", k)
          /\ UNCHANGED store
    /\ pc' = "rethrow"
    /\ UNCHANGED <<userPlan, plan, attempt, transcript, jobNames, jobs, results,
                   generatedContent, jobErrors, error, thrown, returned>>
    /\ UNCHANGED <<uiVars, replayVars>>

\* line 183: throw error;
Rethrow ==
    /\ pc = "rethrow"
    /\ thrown' = Rethrown(error, cleanupError)
    /\ pc' = "failed"
    /\ UNCHANGED <<userPlan, plan, attempt, store, transcript, jobNames, jobs,
                   results, generatedContent, jobErrors, error, cleanupError,
                   returned, calls>>
    /\ UNCHANGED <<uiVars, replayVars>>

Next ==
    \/ UpdateStatusProcessing
    \/ UpdateJobStatusTranscriptionRunning
    \/ TranscribeAudio
    \/ UpdateJobStatusTranscriptionCompleted
    \/ UpdateJobStatusGenerationRunning
    \/ LaunchJobs
    \/ JobSettles
    \/ AwaitAllSettled
    \/ SaveJobErrors
    \/ SkipSaveJobErrors
    \/ UpdateJobStatusGenerationCompleted
    \/ SaveResultsToConvex
    \/ ReturnSuccess
    \/ RecordError
    \/ Rethrow

----------------------------------------------------------------------------
(* CompactProgress.  progress is a JavaScript number; it is kept here as   *)
(* an exact fraction n/d in lowest terms with d > 0.                       *)

RECURSIVE GCD(_, _)
GCD(a, b) == IF b = 0 THEN a ELSE GCD(b, a % b)

Abs(x) == IF x < 0 THEN -x ELSE x

Frac(n, d) ==
    LET g == GCD(Abs(n), d)
    IN  [n |-> n \div g, d |-> d \div g]

Whole(k) == [n |-> k, d |-> 1]

Leq(x, y) == x.n * y.d <= y.n * x.d

\* Math.min
MathMin(x, y) == IF Leq(x, y) THEN x ELSE y

Plus(x, y) == Frac(x.n * y.d + y.n * x.d, x.d * y.d)

\* Math.round(progress): the nearest integer, halves rounded up
MathRound(x) == (2 * x.n + x.d) \div (2 * x.d)

JobStates == {"pending", "running", "completed", "failed"}

\* isJobState(value) ? value : undefined
Normalize(value) == IF value \in JobStates THEN value ELSE "undefined"

\* The step statuses read at lines 45-52, in that order
StepFields ==
    <<"keyMoments", "summary", "socialPosts", "titles", "hashtags", "youtubeTimestamps">>

JobStatusFields == {"transcription", "contentGeneration"} \cup Range(StepFields)

transcriptionStatus(js) == Normalize(js["transcription"])

contentGenerationStatus(js) == Normalize(js["contentGeneration"])

stepStatuses(js) == [i \in 1..Len(StepFields) |-> Normalize(js[StepFields[i]])]

completedSteps(js) ==
    Cardinality({i \in 1..Len(StepFields) : stepStatuses(js)[i] = "completed"})

totalSteps(js) == Len(stepStatuses(js))

anyFailed(js) ==
    \/ transcriptionStatus(js) = "failed"
    \/ contentGenerationStatus(js) = "failed"
    \/ \E i \in 1..Len(StepFields) : stepStatuses(js)[i] = "failed"

isTranscribing(js) == transcriptionStatus(js) = "running"

isTranscribed(js) == transcriptionStatus(js) = "completed"

isGenerated(js) == totalSteps(js) > 0 /\ completedSteps(js) = totalSteps(js)

statusText(js) ==
    IF anyFailed(js) THEN "Failed"
    ELSE IF isTranscribing(js) THEN "Transcribing..."
    ELSE IF isTranscribed(js) /\ ~isGenerated(js) THEN "Generating content..."
    ELSE IF isTranscribed(js) /\ isGenerated(js) THEN "Complete"
    ELSE "Processing..."

\* PROGRESS_CAP_PERCENTAGE of @/lib/constants
PROGRESS_CAP_PERCENTAGE == 80

Phase1Unscaled(e, estimate) ==
    LET raw    == Frac(e * 100, estimate)
        capped == MathMin(Whole(PROGRESS_CAP_PERCENTAGE), raw)
    IN  MathMin(Whole(50), Frac(capped.n * 50, capped.d * 100))

\* updateProgress: the time-based progress of phase 1
Phase1(e, estimate) ==
    LET raw    == Frac(e * 100, estimate)
        capped == MathMin(Whole(PROGRESS_CAP_PERCENTAGE), raw)
    IN  MathMin(Whole(50), Frac(capped.n * 50, capped.d * PROGRESS_CAP_PERCENTAGE))

\* Phase 2: 50 + (completedSteps / totalSteps) * 50
Phase2(js) ==
    LET stepProgress == IF totalSteps(js) > 0
                        THEN Frac(completedSteps(js) * 50, totalSteps(js))
                        ELSE Whole(0)
    IN  Plus(Whole(50), stepProgress)

EffectProgressCompletionFirst(js, e, estimate, p) ==
    IF isTranscribed(js) /\ isGenerated(js) THEN Whole(100)
    ELSE IF anyFailed(js) THEN MathMin(p, Whole(95))
    ELSE IF isTranscribing(js) THEN Phase1(e, estimate)
    ELSE IF isTranscribed(js) THEN Phase2(js)
    ELSE Whole(10)

\* The value the effect of lines 83-123 sets, given the previous progress p
EffectProgress(js, e, estimate, p) ==
    IF anyFailed(js) THEN MathMin(p, Whole(95))
    ELSE IF isTranscribed(js) /\ isGenerated(js) THEN Whole(100)
    ELSE IF isTranscribing(js) THEN Phase1(e, estimate)
    ELSE IF isTranscribed(js) THEN Phase2(js)
    ELSE Whole(10)

\* The dependency list of the effect (createdAt and fileDuration are fixed)
EffectDeps(js) ==
    <<anyFailed(js), isTranscribing(js), isTranscribed(js), isGenerated(js),
      completedSteps(js), totalSteps(js)>>

----------------------------------------------------------------------------
(* The environment of CompactProgress.  The job statuses it is given are   *)
(* those a run writes: each only advances, generation starts once          *)
(* transcription has completed, and a generation step reaches a terminal   *)
(* status while generation is running.  A step status of pending or        *)
(* running is not told apart from an absent one by the component, so the   *)
(* steps are observed when they complete or fail.  The clock the component *)
(* reads never runs backwards.                                             *)

\* Largest clock reading, in seconds since createdAt
MaxElapsed == 4

\* Seconds by which the viewer's clock may be behind createdAt
ClockSkew == 1

\* Largest conservative estimate, in seconds
MaxConservative == 4

ConservativeEstimates == {1, MaxConservative}

InitialJobStatus ==
    [f \in JobStatusFields |->
        IF f \in {"transcription", "contentGeneration"} THEN "pending" ELSE "undefined"]

Rank(v) ==
    CASE v = "undefined" -> 0
      [] v = "pending"   -> 1
      [] v = "running"   -> 2
      [] OTHER           -> 3

\* The step statuses a run of plan p writes: those of the jobs it launches
TrackedSteps(p) == {LaunchedJobs(p)[i].name : i \in 1..Len(LaunchedJobs(p))}

\* Whether field f of the statuses js of a run of plan p may take the value
\* v next
Advances(p, js, f, v) ==
    /\ v \in JobStates
    /\ Rank(js[f]) < Rank(v)
    /\ f = "transcription" => Rank(v) = Rank(js[f]) + 1
    /\ f = "contentGeneration" =>
          /\ js["transcription"] = "completed"
          /\ Rank(v) = Rank(js[f]) + 1
    /\ f \in Range(StepFields) =>
          /\ f \in TrackedSteps(p)
          /\ js["contentGeneration"] = "running"
          /\ Rank(v) = 3

\* Whether the effect, run for the statuses js, reads the clock
ReadsClock(js) == ~anyFailed(js) /\ ~(isTranscribed(js) /\ isGenerated(js)) /\ isTranscribing(js)

UiStart ==
    /\ jobStatus = InitialJobStatus
    /\ progress = Whole(0)
    /\ mounted = FALSE

\* The first run of the effect, after the first render
Mount ==
    /\ ~mounted
    /\ mounted' = TRUE
    /\ progress' = EffectProgress(jobStatus, elapsed, conservative, progress)
    /\ UNCHANGED <<jobStatus, conservative, elapsed>>
    /\ UNCHANGED <<wfVars, replayVars>>

\* A new jobStatus arrives; the effect runs again when a dependency changed
StatusChanges ==
    /\ mounted
    /\ \E f \in JobStatusFields : \E v \in JobStates :
          /\ Advances(plan, jobStatus, f, v)
          /\ jobStatus' = [jobStatus EXCEPT ![f] = v]
    /\ IF EffectDeps(jobStatus') # EffectDeps(jobStatus)
       THEN /\ IF ReadsClock(jobStatus')
               THEN elapsed' \in elapsed..MaxElapsed
               ELSE elapsed' = elapsed
            /\ progress' = EffectProgress(jobStatus', elapsed', conservative, progress)
       ELSE UNCHANGED <<elapsed, progress>>
    /\ UNCHANGED <<conservative, mounted>>
    /\ UNCHANGED <<wfVars, replayVars>>

\* setInterval(updateProgress, PROGRESS_UPDATE_INTERVAL_MS) while transcribing
IntervalTick ==
    /\ mounted
    /\ ReadsClock(jobStatus)
    /\ elapsed' \in elapsed..MaxElapsed
    /\ progress' = Phase1(elapsed', conservative)
    /\ UNCHANGED <<jobStatus, conservative, mounted>>
    /\ UNCHANGED <<wfVars, replayVars>>

----------------------------------------------------------------------------
(* The fan-out under re-invocation.  The platform invokes the handler       *)
(* again from its first statement when a run is resumed; a step.run whose   *)
(* name has a checkpoint returns the recorded result without executing its  *)
(* unit of work, and code outside step.run executes again.  A job that is   *)
(* given `step` runs its unit of work as a step named after the job.        *)

\* Largest number of invocations of the handler for one run
MaxInvocations == 3

ReplayStart ==
    /\ invocation = 1
    /\ pushed = {}
    /\ checkpoints = {}
    /\ executions = [n \in {AllJobs[i].name : i \in 1..Len(AllJobs)} |-> 0]

\* jobs.push(generateX(...)): the invocation launches a job of the plan
RunJob ==
    /\ \E i \in 1..Len(LaunchedJobs(plan)) :
          LET j == LaunchedJobs(plan)[i]
          IN  /\ j.name \notin pushed
              /\ \A k \in 1..(i - 1) : LaunchedJobs(plan)[k].name \in pushed
              /\ pushed' = pushed \cup {j.name}
              /\ IF j.viaStep /\ j.name \in checkpoints
                 THEN UNCHANGED <<checkpoints, executions>>
                 ELSE /\ executions' = [executions EXCEPT ![j.name] = @ + 1]
                      /\ checkpoints' = IF j.viaStep
                                        THEN checkpoints \cup {j.name}
                                        ELSE checkpoints
    /\ UNCHANGED invocation
    /\ UNCHANGED <<wfVars, uiVars>>

\* The run is resumed: the handler is invoked again from the top
Reinvoke ==
    /\ invocation < MaxInvocations
    /\ invocation' = invocation + 1
    /\ pushed' = {}
    /\ UNCHANGED <<checkpoints, executions>>
    /\ UNCHANGED <<wfVars, uiVars>>

----------------------------------------------------------------------------
(* Specifications.                                                         *)

\* One run of the workflow, for every plan value of the trigger event
Init ==
    /\ WfInit
    /\ UiStart
    /\ conservative = 1
    /\ elapsed = 0
    /\ ReplayStart

Spec == Init /\ [][Next]_vars

\* The progress indicator of one project, for a run of each plan
ProgressInit ==
    /\ WfInit
    /\ userPlan \in PlanTiers
    /\ UiStart
    /\ conservative \in ConservativeEstimates
    /\ elapsed \in (0 - ClockSkew)..0
    /\ ReplayStart

ProgressNext ==
    \/ Mount
    \/ StatusChanges
    \/ IntervalTick

ProgressSpec == ProgressInit /\ [][ProgressNext]_vars

\* The fan-out of one run, for every plan value, under re-invocation
ReplayNext ==
    \/ RunJob
    \/ Reinvoke

ReplaySpec == Init /\ [][ReplayNext]_vars

----------------------------------------------------------------------------
(* Vocabulary of the properties.                                           *)

\* The names given to step.run in the handler
StepRunNames ==
    {"update-status-processing", "update-job-status-transcription-running",
     "transcribe-audio", "update-job-status-transcription-completed",
     "update-job-status-generation-running", "save-job-errors",
     "update-job-status-generation-completed", "save-results-to-convex"}

AllJobNames == {AllJobs[i].name : i \in 1..Len(AllJobs)}

AllProducers == {AllJobs[i].producer : i \in 1..Len(AllJobs)}

\* The names of the jobs launched for plan p, in order
LaunchedNames(p) == [i \in 1..Len(LaunchedJobs(p)) |-> LaunchedJobs(p)[i].name]

\* The steps of the spine whose unit of work is a mutation of the store
SpineMutations == StepRunNames \ {"transcribe-audio"}

\* The calls made by the statements of the try block
SpineCalls == SelectSeq(calls, LAMBDA c : c.op # "recordError")

\* The fan-out has completed: Promise.allSettled has returned its outcomes
FanOutDone == results # <<>>

\* The handler is in, or has left through, its catch block
InFailureHandler == pc \in {"catch", "rethrow", "failed"}

CallsOf(op) == {i \in 1..Len(calls) : calls[i].op = op}

\* The names of the launched jobs whose promise is in status st
JobsIn(st) == {jobNames[i] : i \in {k \in 1..Len(jobs) : jobs[k].status = st}}

----------------------------------------------------------------------------
\* C1: once the fan-out has completed, every launched job is a key of
\* exactly one of generatedContent and jobErrors, and no other job is a key
\* of either.
C1_EachJobInExactlyOneMap ==
    FanOutDone =>
        \A n \in AllJobNames :
            IF n \in Range(jobNames)
            THEN (n \in DOMAIN generatedContent) # (n \in DOMAIN jobErrors)
            ELSE n \notin DOMAIN generatedContent /\ n \notin DOMAIN jobErrors

\* An ultra run whose fan-out ended with both fulfilled and rejected jobs
C1_Witness ==
    /\ FanOutDone
    /\ plan = "ultra"
    /\ DOMAIN generatedContent # {}
    /\ DOMAIN jobErrors # {}

\* C2: a rejected generation job never takes the handler into its catch
\* block (only a step.run of the spine does), and a run that returns has set
\* contentGeneration=completed, persisted exactly the values of the
\* fulfilled jobs and returned success.
C2_GenerationNeverAborts ==
    /\ InFailureHandler => error.origin \in StepRunNames
    /\ pc = "returned" =>
          /\ store.contentGeneration = "completed"
          /\ store.contentSaved
          /\ store.generatedContent = [n \in JobsIn("fulfilled") |-> ProducerOf(n)]
          /\ DOMAIN jobErrors = JobsIn("rejected")
          /\ returned = [success |-> TRUE, projectId |-> projectId, plan |-> plan]

\* Scenario B: a pro run in which only titles failed has returned
C2_Witness ==
    /\ pc = "returned"
    /\ plan = "pro"
    /\ jobErrors = [n \in {"titles"} |-> "titles"]
    /\ store.jobErrors = jobErrors
    /\ DOMAIN store.generatedContent = {"summary", "socialPosts", "hashtags"}

\* C3: the fan-out returns one outcome per launched job, the i-th outcome
\* being that of the i-th job name, and only once every job has settled;
\* every sibling of a rejected job keeps its own outcome.
C3_OutcomesIndexAligned ==
    FanOutDone =>
        /\ Len(results) = Len(jobNames)
        /\ Len(results) = Len(LaunchedJobs(plan))
        /\ \A i \in 1..Len(results) :
              /\ results[i].status \in {"fulfilled", "rejected"}
              /\ results[i].status = jobs[i].status
              /\ results[i].status = "fulfilled" =>
                    results[i].value = ProducerOf(jobNames[i])
              /\ results[i].status = "rejected" =>
                    results[i].reason.origin = jobNames[i]

\* Six jobs, the first rejected, the last fulfilled
C3_Witness ==
    /\ FanOutDone
    /\ Len(results) = 6
    /\ results[1].status = "rejected"
    /\ results[6].status = "fulfilled"

\* C4: when transcription has failed for good the handler is in its failure
\* path, no generation job was launched, contentGeneration was never set
\* to running, no generated content is persisted, and recordError is called
\* exactly once, with step "workflow".
C4_TranscriptionFailureIsFatal ==
    error.origin = "transcribe-audio" =>
        /\ InFailureHandler
        /\ jobNames = <<>> /\ jobs = <<>>
        /\ \A i \in 1..Len(calls) :
              /\ calls[i].op \notin AllProducers
              /\ calls[i] # Call("updateJobStatus", "contentGeneration=running")
              /\ calls[i].op # "saveResultsToConvex"
        /\ store.contentGeneration = "pending"
        /\ ~store.contentSaved
        /\ returned = NoReturn
        /\ Cardinality(CallsOf("recordError")) = (IF pc = "catch" THEN 0 ELSE 1)
        /\ \A i \in CallsOf("recordError") : calls[i].arg = "workflow"

\* An ultra run has ended failed because transcription failed
C4_Witness ==
    /\ pc = "failed"
    /\ plan = "ultra"
    /\ error.origin = "transcribe-audio"
    /\ thrown.origin = "transcribe-audio"

\* C5: what the handler re-raises is the error its catch block caught, the
\* error of the step.run that failed last, whether or not recording it
\* failed; the handler never returns a value after a failure.
C5_OriginalErrorRethrown ==
    /\ InFailureHandler => returned = NoReturn
    /\ pc = "failed" =>
          /\ thrown = error
          /\ thrown # NoError
          /\ thrown.origin \in StepRunNames
          /\ calls[Len(calls)] = Call("recordError", "workflow")
          /\ calls[Len(calls) - 1] = CallOf(thrown.origin)
          /\ cleanupError # NoError => ~store.errorRecorded

\* A run has ended failed although recording its error failed too
C5_Witness ==
    /\ pc = "failed"
    /\ cleanupError # NoError
    /\ cleanupError.origin = "record-error"

\* C6: the stored transcription status moves only pending -> running ->
\* completed or failed, and contentGeneration is set to running only when
\* transcription is already completed.
C6_StatusOrder ==
    [][/\ store'.transcription # store.transcription =>
             <<store.transcription, store'.transcription>> \in
                 {<<"pending", "running">>, <<"running", "completed">>,
                  <<"running", "failed">>}
       /\ (store'.contentGeneration = "running" /\ store.contentGeneration # "running") =>
             store.transcription = "completed"
       /\ store'.contentGeneration = "running" => store'.transcription = "completed"
      ]_vars

\* contentGeneration has been set to running
C6_Witness ==
    /\ store.contentGeneration = "running"
    /\ store.transcription = "completed"

\* C7: the jobs launched for a tier are, in order, summary for free; summary,
\* socialPosts, titles, hashtags for pro; and those followed by keyMoments,
\* youtubeTimestamps for ultra.  The job sets grow with the tier and summary
\* is in each.
C7_JobsPerTier ==
    /\ (jobNames # <<>> /\ plan = "free") => jobNames = <<"summary">>
    /\ (jobNames # <<>> /\ plan = "pro") =>
          jobNames = <<"summary", "socialPosts", "titles", "hashtags">>
    /\ (jobNames # <<>> /\ plan = "ultra") =>
          jobNames = <<"summary", "socialPosts", "titles", "hashtags",
                       "keyMoments", "youtubeTimestamps">>
    /\ Range(LaunchedNames("free")) \subseteq Range(LaunchedNames("pro"))
    /\ Range(LaunchedNames("pro")) \subseteq Range(LaunchedNames("ultra"))
    /\ \A p \in PlanTiers : "summary" \in Range(LaunchedNames(p))

\* The jobs of an ultra run have been launched
C7_Witness ==
    /\ plan = "ultra"
    /\ Len(jobNames) = 6
    /\ pc = "await-all-settled"

\* C8: a run whose event carries no plan, or a plan that is no tier, is
\* processed as a free run: transcription is given the plan "free", the
\* result carries the plan "free", and only summary is launched.
C8_UnknownPlanRunsAsFree ==
    userPlan \notin PlanTiers =>
        /\ \A i \in CallsOf("transcribeWithAssemblyAI") : calls[i].arg = "free"
        /\ pc = "returned" => returned.plan = "free"
        /\ jobNames # <<>> => jobNames = <<"summary">>
        /\ InFailureHandler => error.origin \in StepRunNames

\* The store holds a completed run: contentGeneration=completed, the
\* generated content persisted, and every launched job missing from it
\* recorded in the stored jobErrors
StoreCompleted ==
    /\ store.contentGeneration = "completed"
    /\ store.contentSaved
    /\ DOMAIN store.jobErrors = Range(jobNames) \ DOMAIN store.generatedContent

\* The store holds a failure record: a message, the step label and a status
\* code that is a number or absent
StoreFailureRecord ==
    /\ store.errorRecorded
    /\ store.error.step = "workflow"
    /\ store.error.message =
          (IF error.isError THEN error.message ELSE "Unknown error occurred")
    /\ store.error.statusCode.t \in {"number", "undefined"}
    /\ store.error.statusCode \in {error.statusCode, error.status, Undefined}
    /\ (error.statusCode.t = "number" => store.error.statusCode = error.statusCode)

\* C9 (as claimed): a terminated run leaves exactly one of a completed state
\* with persisted content and a failure record, and never
\* contentGeneration=completed without persisted content.
C9_ExactlyOneTerminalOutcome ==
    pc \in {"returned", "failed"} =>
        /\ StoreCompleted # StoreFailureRecord
        /\ ~(store.contentGeneration = "completed" /\ ~store.contentSaved)

\* C9 (amended): a run that returned leaves the completed state with the
\* persisted content, the missing jobs in the stored jobErrors and no failure
\* record; a run that ended failed leaves the failure record exactly when
\* recording it succeeded.
C9_TerminalOutcomes ==
    /\ pc = "returned" =>
          /\ StoreCompleted
          /\ store.generatedContent = generatedContent
          /\ store.jobErrorsSaved <=> (DOMAIN jobErrors # {})
          /\ ~store.errorRecorded
    /\ pc = "failed" =>
          /\ store.errorRecorded <=> (cleanupError = NoError)
          /\ store.errorRecorded => StoreFailureRecord
          /\ ~store.errorRecorded => store.error = NoErrorRecord

\* A run ended failed after contentGeneration=completed was stored, and the
\* failure was recorded with a numeric status code taken from error.status
C9_Witness ==
    /\ pc = "failed"
    /\ store.contentGeneration = "completed"
    /\ ~store.contentSaved
    /\ store.errorRecorded
    /\ error.statusCode.t = "string"
    /\ store.error.statusCode = Num(503)

\* C10: from one evaluation to the next, while no tracked status is failed,
\* the displayed percent never decreases (the clock and the statuses of the
\* environment only advance).
C10_PercentNeverDecreases ==
    [][(mounted /\ ~anyFailed(jobStatus) /\ ~anyFailed(jobStatus')
        /\ elapsed' >= elapsed
        /\ completedSteps(jobStatus') >= completedSteps(jobStatus))
       => MathRound(progress') >= MathRound(progress)]_vars

\* C11: whenever a tracked status is failed after an evaluation, the percent
\* is the minimum of the percent before it and 95 and the label is the
\* failure indicator; so while a failure is recorded the percent never
\* increases and never shows 100, however many steps are completed.
C11_FailureFreezesPercent ==
    [][(mounted' /\ anyFailed(jobStatus')) =>
          /\ progress' = MathMin(progress, Whole(95))
          /\ Leq(progress', progress)
          /\ MathRound(progress') < 100
          /\ statusText(jobStatus') = "Failed"
      ]_vars

\* contentGeneration failed after every step had completed: the percent
\* went from 100 back to 95
C11_Witness ==
    /\ mounted
    /\ jobStatus["contentGeneration"] = "failed"
    /\ completedSteps(jobStatus) = totalSteps(jobStatus)
    /\ isTranscribed(jobStatus)
    /\ progress = Whole(95)

\* C12: with no failure and transcription completed, the percent is
\* 50 + (completed steps / steps tracked for the run) * 50, so it lies in
\* [50, 100] and is 100 with the label Complete exactly when every step
\* tracked for the run is completed (2 of 4 tracked steps give 75).
C12_PercentOfTrackedSteps ==
    (mounted /\ ~anyFailed(jobStatus) /\ isTranscribed(jobStatus)) =>
        LET tracked == Cardinality(TrackedSteps(plan))
            done    == Cardinality({f \in TrackedSteps(plan) : jobStatus[f] = "completed"})
        IN  /\ progress = Plus(Whole(50), Frac(done * 50, tracked))
            /\ Leq(Whole(50), progress) /\ Leq(progress, Whole(100))
            /\ (progress = Whole(100) /\ statusText(jobStatus) = "Complete")
                   <=> done = tracked
            /\ (done = 2 /\ tracked = 4) => progress = Whole(75)

\* C13: in every reachable state, whatever the job statuses, the estimate,
\* the creation timestamp and the clock reading, the displayed percent is at
\* least 0 and at most 100.
C13_PercentWithinBounds ==
    /\ Leq(Whole(0), progress) /\ Leq(progress, Whole(100))
    /\ 0 <= MathRound(progress) /\ MathRound(progress) <= 100

\* C14: while transcription is running and no failure is recorded, the
\* percent is min(50, min(cap, elapsed / estimate * 100) / cap * 50): it is 0
\* at elapsed 0, never exceeds 50, is exactly 50 once elapsed / estimate * 100
\* has reached the cap, and does not decrease from one reading of the clock
\* to the next.
C14_TimeBasedPhase ==
    [][(mounted' /\ isTranscribing(jobStatus') /\ ~anyFailed(jobStatus')) =>
          /\ elapsed' * 100 >= PROGRESS_CAP_PERCENTAGE * conservative'
                => progress' = Whole(50)
          /\ elapsed' * 100 < PROGRESS_CAP_PERCENTAGE * conservative'
                => progress'.n * PROGRESS_CAP_PERCENTAGE * conservative'
                      = elapsed' * 100 * 50 * progress'.d
          /\ elapsed' = 0 => progress' = Whole(0)
          /\ Leq(progress', Whole(50))
          /\ (mounted /\ isTranscribing(jobStatus)) =>
                (elapsed <= elapsed' /\ Leq(progress, progress'))
      ]_vars

\* The estimate has run out: the ratio is past the cap and the percent is 50
C14_Witness ==
    /\ mounted
    /\ isTranscribing(jobStatus)
    /\ conservative > 1
    /\ elapsed * 100 >= PROGRESS_CAP_PERCENTAGE * conservative
    /\ progress = Whole(50)

C16_CallOrderOfSuccessfulRun ==
    /\ pc = "returned" =>
          /\ calls =
                << Call("updateProjectStatus", "status=processing"),
                   Call("updateJobStatus", "transcription=running"),
                   Call("transcribeWithAssemblyAI", plan),
                   Call("updateJobStatus", "transcription=completed"),
                   Call("updateJobStatus", "contentGeneration=running") >>
                \o [i \in 1..Len(jobNames) |-> Call(ProducerOf(jobNames[i]), "transcript")]
                \o (IF DOMAIN jobErrors # {}
                    THEN <<Call("saveJobErrors", "jobErrors")>> ELSE <<>>)
                \o << Call("updateJobStatus", "contentGeneration=completed"),
                      Call("saveResultsToConvex", "generatedContent") >>
          /\ Len(jobNames) >= 1
          /\ returned = [success |-> TRUE, projectId |-> projectId, plan |-> plan]
    /\ \A i \in 1..Len(calls) :
          calls[i].op \in AllProducers =>
              /\ transcript = "transcript"
              /\ calls[i].arg = transcript
              /\ \E k \in 1..(i - 1) : calls[k].op = "transcribeWithAssemblyAI"

\* A pro run returned after recording the errors of the jobs that failed
C16_Witness ==
    /\ pc = "returned"
    /\ plan = "pro"
    /\ DOMAIN jobErrors # {}
    /\ DOMAIN generatedContent # {}
    /\ Len(calls) = 12

\* C17: when a status or persistence mutation of the spine has failed after
\* its retries, no later step of the spine executes (the failed mutation is
\* the last call of the try block and the store holds nothing a later step
\* writes), the failure handler is entered and calls recordError once, and the
\* run ends failed without returning a success result.
C17_SpineMutationFailureIsFatal ==
    (error # NoError /\ error.origin \in SpineMutations) =>
        /\ InFailureHandler
        /\ returned = NoReturn
        /\ SpineCalls[Len(SpineCalls)] = CallOf(error.origin)
        /\ \A i \in 1..(Len(SpineCalls) - 1) : SpineCalls[i] # CallOf(error.origin)
        /\ ~store.contentSaved
        /\ error.origin # "save-results-to-convex" => store.contentGeneration # "completed"
        /\ error.origin = "save-job-errors" => ~store.jobErrorsSaved
        /\ error.origin = "update-job-status-generation-running" =>
              (store.contentGeneration = "pending" /\ jobNames = <<>>)
        /\ pc = "catch" => CallsOf("recordError") = {}
        /\ pc \in {"rethrow", "failed"} => CallsOf("recordError") = {Len(calls)}

\* saveJobErrors failed after its retries: the run ended failed with
\* contentGeneration still running and nothing persisted
C17_Witness ==
    /\ pc = "failed"
    /\ error.origin = "save-job-errors"
    /\ store.contentGeneration = "running"
    /\ ~store.jobErrorsSaved
    /\ ~store.contentSaved
    /\ CallsOf("recordError") # {}

\* C18: every generation job launched for the plan runs as a durable step
\* checkpointed by its name, so however often the run is resumed, no
\* job's unit of work is executed again once it has completed.
C18_NoCompletedJobExecutedAgain ==
    \A n \in DOMAIN executions :
        /\ executions[n] <= 1
        /\ executions[n] = 1 => n \in checkpoints

\* C19: transcription=completed and contentGeneration=running are written by
\* one mutation: in no state of the store, the states a failure leaves behind
\* included, is transcription completed while contentGeneration is still
\* pending.
C19_HandOverIsOneMutation ==
    ~(store.transcription = "completed" /\ store.contentGeneration = "pending")

\* C19 (amended): transcription=completed and contentGeneration=running are
\* written by two consecutive mutations, in that order.  The store holds
\* transcription completed with contentGeneration pending only while the
\* second mutation is due, or for good when the second mutation has failed;
\* contentGeneration leaves pending only by the second mutation, issued
\* right after the first, and no job is launched before it.
C19_HandOverIsTwoMutations ==
    /\ (store.transcription = "completed" /\ store.contentGeneration = "pending") =>
          /\ \/ pc = "update-job-status-generation-running"
             \/ /\ InFailureHandler
                /\ error.origin = "update-job-status-generation-running"
          /\ jobNames = <<>>
    /\ store.contentGeneration # "pending" =>
          /\ store.transcription = "completed"
          /\ \E i \in 1..(Len(calls) - 1) :
                /\ calls[i] = Call("updateJobStatus", "transcription=completed")
                /\ calls[i + 1] = Call("updateJobStatus", "contentGeneration=running")
    /\ jobNames # <<>> => store.contentGeneration # "pending"

\* The second mutation failed after its retries: the run ended with
\* transcription completed and contentGeneration pending
C19_Witness ==
    /\ pc = "failed"
    /\ store.transcription = "completed"
    /\ store.contentGeneration = "pending"
    /\ error.origin = "update-job-status-generation-running"

\* C20: for each plan, once the run has completed (transcription and
\* contentGeneration completed, and the step of every job launched for the
\* plan completed), the component shows 100 percent and the label Complete.
C20_CompleteForEveryPlan ==
    (/\ mounted
     /\ jobStatus["transcription"] = "completed"
     /\ jobStatus["contentGeneration"] = "completed"
     /\ \A f \in TrackedSteps(plan) : jobStatus[f] = "completed") =>
        /\ MathRound(progress) = 100
        /\ isGenerated(jobStatus)
        /\ statusText(jobStatus) = "Complete"

====
